---------------------------- MODULE Spec2Model ----------------------------
(***************************************************************************)
(* A model of mini_compiler_gui.py: the lexical analyzer (a regular        *)
(* expression scan), the recursive-descent syntax analyzer, the direct     *)
(* evaluator and the run_compiler callback that chains the three.          *)
(*                                                                         *)
(* Text is a sequence of one-character strings, so that the scan, int(),   *)
(* str(), strip() and join() are computed character by character.          *)
(* Sequences are 1-based; the code's 0-based cursors (current_token_index, *)
(* i) keep their 0-based values and are shifted at each read.              *)
(***************************************************************************)
EXTENDS Integers, Sequences, FiniteSets

VARIABLES
    code,                 \* run_compiler: the source text read from the widget
    pos,                  \* lexical_analyzer: where re.finditer resumes (1-based)
    tokens,               \* the token list: records [type, value]
    has_error,            \* lexical_analyzer: has_error
    parser_tokens,        \* SimpleParser.tokens
    current_token_index,  \* SimpleParser.current_token_index (0-based)
    stack,                \* the parser's pending calls (its Python call stack)
    ok,                   \* run_compiler: ok, "True" or "False" ("None" before)
    i,                    \* evaluate: the cursor i (0-based)
    symbols,              \* evaluate: the dict symbols (a function on its keys)
    output,               \* evaluate: the list output
    result,               \* run_compiler: result, the text evaluate returned
    fault,                \* an exception that left a function uncaught
    pc,                   \* where the run is
    report                \* what run_compiler wrote about syntax and output

vars == <<code, pos, tokens, has_error, parser_tokens, current_token_index,
          stack, ok, i, symbols, output, result, fault, pc, report>>

lexVars == <<code, pos, tokens, has_error>>
parseVars == <<parser_tokens, current_token_index, stack, ok>>
evalVars == <<i, symbols, output, result>>

---------------------------------------------------------------------------
(* Characters                                                              *)

Letters ==
    {"a","b","c","d","e","f","g","h","i","j","k","l","m","n","o","p","q",
     "r","s","t","u","v","w","x","y","z",
     "A","B","C","D","E","F","G","H","I","J","K","L","M","N","O","P","Q",
     "R","S","T","U","V","W","X","Y","Z"}

Digits == {"0","1","2","3","4","5","6","7","8","9"}

DigitSeq == <<"0","1","2","3","4","5","6","7","8","9">>

WordChars == Letters \cup Digits \cup {"_"}

SpaceChars == {" ", "\t", "\n", "\r", "\f"}

Quote == "\""

Max(S) == CHOOSE x \in S : \A y \in S : y <= x

Min(S) == CHOOSE x \in S : \A y \in S : x <= y

---------------------------------------------------------------------------
(* TOKEN_TYPES and the combined regular expression                         *)

TOKEN_TYPES ==
    <<"INT_KEYWORD", "RETURN_KEYWORD", "IDENTIFIER", "STRING_LITERAL",
      "NUMBER", "PLUS", "MINUS", "EQUALS", "LPAREN", "RPAREN", "LBRACE",
      "RBRACE", "SEMICOLON", "COMMA", "WHITESPACE", "UNKNOWN">>

\* \b at the gap before position p: exactly one side is a word character.
IsWordAt(s, p) == p \in 1..Len(s) /\ s[p] \in WordChars

WordBoundary(s, p) == IsWordAt(s, p - 1) # IsWordAt(s, p)

LiteralAt(s, p, lit) ==
    /\ p + Len(lit) - 1 <= Len(s)
    /\ \A k \in 1..Len(lit) : s[p + k - 1] = lit[k]

\* A greedy quantifier backtracks from the longest candidate: of the lengths
\* that let the whole pattern match, the longest is taken (0: no match).
Greedy(lens) == IF lens = {} THEN 0 ELSE Max(lens)

KeywordLen(s, p, lit) ==
    IF WordBoundary(s, p) /\ LiteralAt(s, p, lit) /\ WordBoundary(s, p + Len(lit))
    THEN Len(lit) ELSE 0

IdentifierLen(s, p) ==
    Greedy({n \in 1..(Len(s) - p + 1) :
              /\ WordBoundary(s, p)
              /\ s[p] \in Letters \cup {"_"}
              /\ \A k \in 1..(n - 1) : s[p + k] \in WordChars
              /\ WordBoundary(s, p + n)})

\* A STRING_LITERAL pattern whose closing quote is optional: "[^"]*"?
StringLiteralLenUnterminated(s, p) ==
    Greedy({n \in 1..(Len(s) - p + 1) :
              /\ s[p] = Quote
              /\ \/ \A k \in 1..(n - 1) : s[p + k] # Quote
                 \/ /\ n >= 2
                    /\ \A k \in 1..(n - 2) : s[p + k] # Quote
                    /\ s[p + n - 1] = Quote})

StringLiteralLen(s, p) ==
    Greedy({n \in 2..(Len(s) - p + 1) :
              /\ s[p] = Quote
              /\ \A k \in 1..(n - 2) : s[p + k] # Quote
              /\ s[p + n - 1] = Quote})

NumberLen(s, p) ==
    Greedy({n \in 1..(Len(s) - p + 1) :
              /\ WordBoundary(s, p)
              /\ \A k \in 0..(n - 1) : s[p + k] \in Digits
              /\ WordBoundary(s, p + n)})

CharLen(s, p, c) == IF s[p] = c THEN 1 ELSE 0

WhitespaceLen(s, p) ==
    Greedy({n \in 1..(Len(s) - p + 1) :
              \A k \in 0..(n - 1) : s[p + k] \in SpaceChars})

\* '.' matches any character but a newline.
UnknownLen(s, p) == IF s[p] # "\n" THEN 1 ELSE 0

\* The length the pattern of one token type matches at position p (0: none).
MatchLen(name, s, p) ==
    CASE name = "INT_KEYWORD"    -> KeywordLen(s, p, <<"i","n","t">>)
      [] name = "RETURN_KEYWORD" -> KeywordLen(s, p, <<"r","e","t","u","r","n">>)
      [] name = "IDENTIFIER"     -> IdentifierLen(s, p)
      [] name = "STRING_LITERAL" -> StringLiteralLen(s, p)
      [] name = "NUMBER"         -> NumberLen(s, p)
      [] name = "PLUS"           -> CharLen(s, p, "+")
      [] name = "MINUS"          -> CharLen(s, p, "-")
      [] name = "EQUALS"         -> CharLen(s, p, "=")
      [] name = "LPAREN"         -> CharLen(s, p, "(")
      [] name = "RPAREN"         -> CharLen(s, p, ")")
      [] name = "LBRACE"         -> CharLen(s, p, "{")
      [] name = "RBRACE"         -> CharLen(s, p, "}")
      [] name = "SEMICOLON"      -> CharLen(s, p, ";")
      [] name = "COMMA"          -> CharLen(s, p, ",")
      [] name = "WHITESPACE"     -> WhitespaceLen(s, p)
      [] name = "UNKNOWN"        -> UnknownLen(s, p)

\* token_regex: the alternatives in dictionary order, the first that matches
\* at a position wins.
AlternativesAt(s, p) ==
    {k \in 1..Len(TOKEN_TYPES) : MatchLen(TOKEN_TYPES[k], s, p) > 0}

NoMatch == [type |-> "none", start |-> 0, len |-> 0]

\* One step of re.finditer from position p: the leftmost position at which
\* some alternative matches, with the first such alternative.
RECURSIVE NextMatch(_, _)
NextMatch(s, p) ==
    IF p > Len(s) THEN NoMatch
    ELSE LET alts == AlternativesAt(s, p)
         IN  IF alts = {} THEN NextMatch(s, p + 1)
             ELSE LET name == TOKEN_TYPES[Min(alts)]
                  IN  [type |-> name, start |-> p, len |-> MatchLen(name, s, p)]

---------------------------------------------------------------------------
(* lexical_analyzer: one action per iteration of its loop                  *)

\* tokens.append((token_type, token_value))
LexAppend ==
    /\ pc = "lex"
    /\ LET m == NextMatch(code, pos) IN
        /\ m.type \notin {"none", "WHITESPACE", "UNKNOWN"}
        /\ tokens' = Append(tokens,
                [type |-> m.type,
                 value |-> SubSeq(code, m.start, m.start + m.len - 1)])
        /\ pos' = m.start + m.len
    /\ UNCHANGED <<code, has_error, parseVars, evalVars, fault, pc, report>>

\* if token_type == 'WHITESPACE': continue
LexWhitespace ==
    /\ pc = "lex"
    /\ LET m == NextMatch(code, pos) IN
        /\ m.type = "WHITESPACE"
        /\ pos' = m.start + m.len
    /\ UNCHANGED <<code, tokens, has_error, parseVars, evalVars, fault, pc, report>>

\* elif token_type == 'UNKNOWN': has_error = True; continue
LexUnknown ==
    /\ pc = "lex"
    /\ LET m == NextMatch(code, pos) IN
        /\ m.type = "UNKNOWN"
        /\ pos' = m.start + m.len
    /\ has_error' = TRUE
    /\ UNCHANGED <<code, tokens, parseVars, evalVars, fault, pc, report>>

\* The iterator is exhausted: return tokens, has_error
LexReturn ==
    /\ pc = "lex"
    /\ NextMatch(code, pos).type = "none"
    /\ pc' = "lexed"
    /\ UNCHANGED <<lexVars, parseVars, evalVars, fault, report>>

---------------------------------------------------------------------------
(* SimpleParser                                                            *)

\* tokens[index] of a Python list, for index >= 0: the element, or IndexError.
IndexErrorToken == [type |-> "IndexError", value |-> <<>>]

ListGet(ts, index) ==
    IF index < Len(ts) THEN ts[index + 1] ELSE IndexErrorToken

\* A get_current_token_type that reads the list without looking at its length.
get_current_token_type_unchecked(ts, index) == ListGet(ts, index).type

\* get_current_token_type: the current token's type, or None at the end.
get_current_token_type(ts, index) ==
    IF index < Len(ts) THEN ListGet(ts, index).type ELSE "None"

\* The parser's pending work, innermost first: what is left of the bodies of
\* syntax_analyzer and of the parse_* methods that are on the call stack.
Op(name) == [op |-> name, arg |-> ""]

ExpectOp(type) == [op |-> "expect", arg |-> type]

\* The try block of syntax_analyzer, in order.
ProgramBody ==
    <<ExpectOp("INT_KEYWORD"), ExpectOp("IDENTIFIER"), ExpectOp("LPAREN"),
      ExpectOp("RPAREN"), ExpectOp("LBRACE"), Op("statements"),
      ExpectOp("RBRACE"), Op("end_of_file")>>

\* What one parser step leaves: the cursor, the pending work, and how the step
\* ended ("continue", "SyntaxError", "IndexError", or "True": the try block
\* ran to its return).
Step(index, rest, outcome) == [index |-> index, stack |-> rest, outcome |-> outcome]

Raise(index, exception) == Step(index, <<>>, exception)

\* A read of the current type that fails leaves the parser at once.
Guarded(cur, index, step) ==
    IF cur = "IndexError" THEN Raise(index, "IndexError") ELSE step

\* expect(expected_type): consume the current token if it matches, else raise.
expect(ts, index, rest, expected_type) ==
    LET cur == get_current_token_type(ts, index) IN
    Guarded(cur, index,
        IF cur = expected_type THEN Step(index + 1, rest, "continue")
        ELSE Raise(index, "SyntaxError"))

\* while parser.get_current_token_type() not in ['RBRACE', None]:
\*     parser.parse_statement()
statements_loop(ts, index, rest) ==
    LET cur == get_current_token_type(ts, index) IN
    Guarded(cur, index,
        IF cur \notin {"RBRACE", "None"}
        THEN Step(index, <<Op("parse_statement"), Op("statements")>> \o rest, "continue")
        ELSE Step(index, rest, "continue"))

\* parse_statement: the dispatch on the current token and, for an identifier,
\* on the one after it; the rest of the chosen branch is left pending.
parse_statement(ts, index, rest) ==
    LET current == get_current_token_type(ts, index)
        next_token == get_current_token_type(ts, index + 1)
    IN  Guarded(current, index,
        CASE current = "INT_KEYWORD" ->
               Step(index + 1,
                    <<ExpectOp("IDENTIFIER"), Op("initializer"),
                      ExpectOp("SEMICOLON")>> \o rest, "continue")
          [] current = "RETURN_KEYWORD" ->
               Step(index + 1,
                    <<Op("return_value"), ExpectOp("SEMICOLON")>> \o rest,
                    "continue")
          [] current = "IDENTIFIER" ->
               Guarded(next_token, index + 1,
               CASE next_token = "LPAREN" ->
                      Step(index + 2,
                           <<Op("parse_arguments"), ExpectOp("RPAREN"),
                             ExpectOp("SEMICOLON")>> \o rest, "continue")
                 [] next_token = "EQUALS" ->
                      Step(index + 2,
                           <<Op("parse_expression"), ExpectOp("SEMICOLON")>> \o rest,
                           "continue")
                 [] OTHER -> Raise(index + 1, "SyntaxError"))
          [] OTHER -> Raise(index, "SyntaxError"))

\* if self.get_current_token_type() == 'EQUALS': advance; parse_expression
initializer(ts, index, rest) ==
    LET cur == get_current_token_type(ts, index) IN
    Guarded(cur, index,
        IF cur = "EQUALS"
        THEN Step(index + 1, <<Op("parse_expression")>> \o rest, "continue")
        ELSE Step(index, rest, "continue"))

\* if self.get_current_token_type() != 'SEMICOLON': parse_expression
return_value(ts, index, rest) ==
    LET cur == get_current_token_type(ts, index) IN
    Guarded(cur, index,
        IF cur # "SEMICOLON"
        THEN Step(index, <<Op("parse_expression")>> \o rest, "continue")
        ELSE Step(index, rest, "continue"))

\* parse_arguments: nothing before ')', else an expression and the comma loop.
parse_arguments(ts, index, rest) ==
    LET cur == get_current_token_type(ts, index) IN
    Guarded(cur, index,
        IF cur = "RPAREN" THEN Step(index, rest, "continue")
        ELSE Step(index, <<Op("parse_expression"), Op("arguments_loop")>> \o rest,
                  "continue"))

\* while current == 'COMMA': expect('COMMA'); parse_expression()
arguments_loop(ts, index, rest) ==
    LET cur == get_current_token_type(ts, index) IN
    Guarded(cur, index,
        IF cur = "COMMA"
        THEN Step(index + 1, <<Op("parse_expression"), Op("arguments_loop")>> \o rest,
                  "continue")
        ELSE Step(index, rest, "continue"))

\* parse_expression: a term, then the operator loop.
parse_expression(ts, index, rest) ==
    Step(index, <<Op("parse_term"), Op("expression_loop")>> \o rest, "continue")

\* while current in ['PLUS', 'MINUS']: advance; parse_term()
expression_loop(ts, index, rest) ==
    LET cur == get_current_token_type(ts, index) IN
    Guarded(cur, index,
        IF cur \in {"PLUS", "MINUS"}
        THEN Step(index + 1, <<Op("parse_term"), Op("expression_loop")>> \o rest,
                  "continue")
        ELSE Step(index, rest, "continue"))

\* parse_term: a NUMBER, an IDENTIFIER or a STRING_LITERAL, else raise.
parse_term(ts, index, rest) ==
    LET current == get_current_token_type(ts, index) IN
    Guarded(current, index,
        IF current \in {"NUMBER", "IDENTIFIER", "STRING_LITERAL"}
        THEN expect(ts, index, rest, current)
        ELSE Raise(index, "SyntaxError"))

\* An end_of_file that lets tokens follow the closing brace.
end_of_file_lenient(ts, index, rest) == Step(index, rest, "True")

\* if parser.get_current_token_type() is not None: raise; else return True
end_of_file(ts, index, rest) ==
    LET cur == get_current_token_type(ts, index) IN
    Guarded(cur, index,
        IF cur # "None" THEN Raise(index, "SyntaxError")
        ELSE Step(index, rest, "True"))

\* syntax_analyzer's try/except around a step: SyntaxError is caught and
\* False returned; any other exception leaves syntax_analyzer; the end of the
\* try block returns True.
Parse(step) ==
    /\ current_token_index' = step.index
    /\ stack' = step.stack
    /\ CASE step.outcome = "continue" ->
              /\ ok' = ok /\ pc' = pc /\ fault' = fault
         [] step.outcome = "True" ->
              /\ ok' = "True" /\ pc' = "parsed" /\ fault' = fault
         [] step.outcome = "SyntaxError" ->
              /\ ok' = "False" /\ pc' = "parsed" /\ fault' = fault
         [] OTHER ->
              /\ ok' = ok /\ pc' = "crashed" /\ fault' = step.outcome
    /\ UNCHANGED <<lexVars, parser_tokens, evalVars, report>>

Pending(name) == pc = "parse" /\ stack # <<>> /\ Head(stack).op = name

Expect ==
    /\ Pending("expect")
    /\ Parse(expect(parser_tokens, current_token_index, Tail(stack), Head(stack).arg))

StatementsLoop ==
    /\ Pending("statements")
    /\ Parse(statements_loop(parser_tokens, current_token_index, Tail(stack)))

ParseStatement ==
    /\ Pending("parse_statement")
    /\ Parse(parse_statement(parser_tokens, current_token_index, Tail(stack)))

Initializer ==
    /\ Pending("initializer")
    /\ Parse(initializer(parser_tokens, current_token_index, Tail(stack)))

ReturnValue ==
    /\ Pending("return_value")
    /\ Parse(return_value(parser_tokens, current_token_index, Tail(stack)))

ParseArguments ==
    /\ Pending("parse_arguments")
    /\ Parse(parse_arguments(parser_tokens, current_token_index, Tail(stack)))

ArgumentsLoop ==
    /\ Pending("arguments_loop")
    /\ Parse(arguments_loop(parser_tokens, current_token_index, Tail(stack)))

ParseExpression ==
    /\ Pending("parse_expression")
    /\ Parse(parse_expression(parser_tokens, current_token_index, Tail(stack)))

ExpressionLoop ==
    /\ Pending("expression_loop")
    /\ Parse(expression_loop(parser_tokens, current_token_index, Tail(stack)))

ParseTerm ==
    /\ Pending("parse_term")
    /\ Parse(parse_term(parser_tokens, current_token_index, Tail(stack)))

EndOfFile ==
    /\ Pending("end_of_file")
    /\ Parse(end_of_file(parser_tokens, current_token_index, Tail(stack)))

NextParse ==
    \/ Expect \/ StatementsLoop \/ ParseStatement \/ Initializer
    \/ ReturnValue \/ ParseArguments \/ ArgumentsLoop \/ ParseExpression
    \/ ExpressionLoop \/ ParseTerm \/ EndOfFile

---------------------------------------------------------------------------
(* evaluate                                                                *)

\* A Python value: an int or a str.
IntValue(n) == [t |-> "int", n |-> n, s |-> <<>>]

StrValue(str) == [t |-> "str", n |-> 0, s |-> str]

PRINTF == <<"p","r","i","n","t","f">>

\* int(tval) of a run of decimal digits.
DigitValue(c) == CHOOSE d \in 0..9 : DigitSeq[d + 1] = c

RECURSIVE int(_)
int(tval) ==
    IF Len(tval) = 1 THEN DigitValue(tval[1])
    ELSE 10 * int(SubSeq(tval, 1, Len(tval) - 1)) + DigitValue(tval[Len(tval)])

\* tval.strip('"'): every leading and every trailing double quote removed.
RECURSIVE strip(_)
strip(tval) ==
    IF tval = <<>> THEN tval
    ELSE IF Head(tval) = Quote THEN strip(Tail(tval))
    ELSE IF tval[Len(tval)] = Quote THEN strip(SubSeq(tval, 1, Len(tval) - 1))
    ELSE tval

\* str(value)
RECURSIVE NatToStr(_)
NatToStr(n) ==
    IF n < 10 THEN <<DigitSeq[n + 1]>>
    ELSE NatToStr(n \div 10) \o <<DigitSeq[(n % 10) + 1]>>

str(value) ==
    IF value.t = "str" THEN value.s
    ELSE IF value.n < 0 THEN <<"-">> \o NatToStr(0 - value.n)
    ELSE NatToStr(value.n)

\* "\n".join(output)
RECURSIVE join(_)
join(lines) ==
    IF lines = <<>> THEN <<>>
    ELSE IF Len(lines) = 1 THEN lines[1]
    ELSE lines[1] \o <<"\n">> \o join(Tail(lines))

\* symbols.get(tval, 0)
symbols_get(syms, name) ==
    IF name \in DOMAIN syms THEN syms[name] ELSE IntValue(0)

\* symbols[name] = value
symbols_set(syms, name, value) ==
    [k \in (DOMAIN syms) \cup {name} |-> IF k = name THEN value ELSE syms[k]]

\* What an expression evaluation gives: a value, or the exception it raised.
Value(v) == [fault |-> "none", value |-> v]

Raised(exception) == [fault |-> exception, value |-> IntValue(0)]

\* get_value(tok); tok is what tokens[...] gave, which may be IndexError.
get_value(tok, syms) ==
    CASE tok.type = "IndexError"     -> Raised("IndexError")
      [] tok.type = "NUMBER"         -> Value(IntValue(int(tok.value)))
      [] tok.type = "STRING_LITERAL" -> Value(StrValue(strip(tok.value)))
      [] tok.type = "IDENTIFIER"     -> Value(symbols_get(syms, tok.value))
      [] OTHER                       -> Raised("ValueError")

\* value + right, value - right with Python's operand types.
apply_op(op, left, right) ==
    IF left.t = "int" /\ right.t = "int"
    THEN Value(IntValue(IF op = "PLUS" THEN left.n + right.n ELSE left.n - right.n))
    ELSE IF left.t = "str" /\ right.t = "str" /\ op = "PLUS"
    THEN Value(StrValue(left.s \o right.s))
    ELSE Raised("TypeError")

\* An eval_expression that applies the first operator only (an if for the
\* while).
eval_loop_once(ts, j, value, syms) ==
    IF j < Len(ts) /\ ts[j + 1].type \in {"PLUS", "MINUS"}
    THEN LET right == get_value(ListGet(ts, j + 1), syms)
         IN  IF right.fault # "none" THEN right
             ELSE apply_op(ts[j + 1].type, value, right.value)
    ELSE Value(value)

\* The while loop of eval_expression with the cursor at j.
RECURSIVE eval_loop(_, _, _, _)
eval_loop(ts, j, value, syms) ==
    IF j < Len(ts) /\ ts[j + 1].type \in {"PLUS", "MINUS"}
    THEN LET right == get_value(ListGet(ts, j + 1), syms)
         IN  IF right.fault # "none" THEN right
             ELSE LET next == apply_op(ts[j + 1].type, value, right.value)
                  IN  IF next.fault # "none" THEN next
                      ELSE eval_loop(ts, j + 2, next.value, syms)
    ELSE Value(value)

\* eval_expression(i)
eval_expression(ts, j, syms) ==
    LET first == get_value(ListGet(ts, j), syms)
    IN  IF first.fault # "none" THEN first
        ELSE eval_loop(ts, j + 1, first.value, syms)

\* while tokens[i][0] != "SEMICOLON": i += 1   (-1: tokens[i] raised IndexError)
RECURSIVE skip_to_semicolon(_, _)
skip_to_semicolon(ts, j) ==
    IF ListGet(ts, j).type = "IndexError" THEN 0 - 1
    ELSE IF ListGet(ts, j).type = "SEMICOLON" THEN j
    ELSE skip_to_semicolon(ts, j + 1)

\* What one iteration of evaluate's main loop does.
Iteration(branch, j, syms, out, exception) ==
    [branch |-> branch, i |-> j, symbols |-> syms, output |-> out,
     fault |-> exception]

\* if ttype == "INT_KEYWORD": symbols[name] = 0; i += 3
\* (the branch for "int x = expr;" below it repeats this condition and is
\* never reached)
declaration(ts, j, syms, out) ==
    LET name == ListGet(ts, j + 1) IN
    IF name.type = "IndexError"
    THEN Iteration("declaration", j, syms, out, "IndexError")
    ELSE Iteration("declaration", j + 3,
                   symbols_set(syms, name.value, IntValue(0)), out, "none")

\* x = expr;   symbols[name] = eval_expression(i+2); i += 4
assignment(ts, j, syms, out) ==
    LET value == eval_expression(ts, j + 2, syms) IN
    IF value.fault # "none"
    THEN Iteration("assignment", j, syms, out, value.fault)
    ELSE Iteration("assignment", j + 4,
                   symbols_set(syms, ts[j + 1].value, value.value), out, "none")

\* printf(expr);   output.append(str(eval_expression(i+2))); skip past ';'
printf(ts, j, syms, out) ==
    LET value == eval_expression(ts, j + 2, syms) IN
    IF value.fault # "none"
    THEN Iteration("printf", j, syms, out, value.fault)
    ELSE LET lines == Append(out, str(value.value))
             semi == skip_to_semicolon(ts, j)
         IN  IF semi < 0
             THEN Iteration("printf", Len(ts), syms, lines, "IndexError")
             ELSE Iteration("printf", semi + 1, syms, lines, "none")

\* The body of "while i < len(tokens)": the first branch whose test holds.
iteration(ts, j, syms, out) ==
    LET ttype == ts[j + 1].type
        tval == ts[j + 1].value
    IN  IF ttype = "INT_KEYWORD" THEN declaration(ts, j, syms, out)
        ELSE IF ttype = "IDENTIFIER" /\ ListGet(ts, j + 1).type = "IndexError"
        THEN Iteration("assignment", j, syms, out, "IndexError")
        ELSE IF ttype = "IDENTIFIER" /\ ListGet(ts, j + 1).type = "EQUALS"
        THEN assignment(ts, j, syms, out)
        ELSE IF ttype = "IDENTIFIER" /\ tval = PRINTF
        THEN printf(ts, j, syms, out)
        ELSE Iteration("skip", j + 1, syms, out, "none")

\* An exception raised inside evaluate is caught nowhere: it leaves evaluate
\* and run_compiler.
Evaluate(step) ==
    /\ i' = step.i
    /\ symbols' = step.symbols
    /\ output' = step.output
    /\ IF step.fault = "none"
       THEN pc' = pc /\ fault' = fault
       ELSE pc' = "crashed" /\ fault' = step.fault
    /\ UNCHANGED <<lexVars, parseVars, result, report>>

Looping(branch) ==
    /\ pc = "eval"
    /\ i < Len(tokens)
    /\ iteration(tokens, i, symbols, output).branch = branch

EvalDeclaration ==
    /\ Looping("declaration")
    /\ Evaluate(iteration(tokens, i, symbols, output))

EvalAssignment ==
    /\ Looping("assignment")
    /\ Evaluate(iteration(tokens, i, symbols, output))

EvalPrintf ==
    /\ Looping("printf")
    /\ Evaluate(iteration(tokens, i, symbols, output))

EvalSkip ==
    /\ Looping("skip")
    /\ Evaluate(iteration(tokens, i, symbols, output))

\* return "\n".join(output)
EvalReturn ==
    /\ pc = "eval"
    /\ ~(i < Len(tokens))
    /\ result' = join(output)
    /\ pc' = "evaluated"
    /\ UNCHANGED <<lexVars, parseVars, i, symbols, output, fault, report>>

NextEval ==
    \/ EvalDeclaration \/ EvalAssignment \/ EvalPrintf \/ EvalSkip \/ EvalReturn

---------------------------------------------------------------------------
(* run_compiler                                                            *)

NoReport == [status |-> "none", no_output |-> FALSE, text |-> <<>>]

\* if lex_error: "Lexical Error Detected. Stopping."; return
StopOnLexicalError ==
    /\ pc = "lexed"
    /\ has_error
    /\ report' = [report EXCEPT !.status = "lexical_error"]
    /\ pc' = "done"
    /\ UNCHANGED <<lexVars, parseVars, evalVars, fault>>

\* ok = syntax_analyzer(tokens): parser = SimpleParser(tokens)
lexical_gate(lex_error) == ~lex_error

StartSyntaxAnalyzer ==
    /\ pc = "lexed"
    /\ lexical_gate(has_error)
    /\ parser_tokens' = tokens
    /\ current_token_index' = 0
    /\ stack' = ProgramBody
    /\ pc' = "parse"
    /\ UNCHANGED <<lexVars, ok, evalVars, fault, report>>

\* A run_compiler that evaluates whatever the verdict.
syntax_gate_open(verdict) == TRUE

\* if ok: "Syntax Analysis Successful!"; result = evaluate(tokens)
syntax_gate(verdict) == verdict = "True"

StartEvaluate ==
    /\ pc = "parsed"
    /\ syntax_gate(ok)
    /\ report' = [report EXCEPT !.status = "syntax_successful"]
    /\ i' = 0
    /\ symbols' = <<>>
    /\ output' = <<>>
    /\ pc' = "eval"
    /\ UNCHANGED <<lexVars, parseVars, result, fault>>

\* else: "Syntax Analysis Failed."
ReportSyntaxFailure ==
    /\ pc = "parsed"
    /\ ~syntax_gate(ok)
    /\ report' = [report EXCEPT !.status = "syntax_failed"]
    /\ pc' = "done"
    /\ UNCHANGED <<lexVars, parseVars, evalVars, fault>>

\* if result: the program's output; else: "(No output)"
is_true(text) == text # <<>>

ReportOutput ==
    /\ pc = "evaluated"
    /\ report' = IF is_true(result)
                 THEN [report EXCEPT !.status = "compiled", !.text = result]
                 ELSE [report EXCEPT !.status = "compiled", !.no_output = TRUE]
    /\ pc' = "done"
    /\ UNCHANGED <<lexVars, parseVars, evalVars, fault>>

NextRun ==
    \/ StopOnLexicalError \/ StartSyntaxAnalyzer \/ StartEvaluate
    \/ ReportSyntaxFailure \/ ReportOutput

NextLex == LexAppend \/ LexWhitespace \/ LexUnknown \/ LexReturn

---------------------------------------------------------------------------
(* The source texts the runs start from                                    *)

\* int main(){
HeaderText ==
    <<"i","n","t"," ","m","a","i","n","(",")","{">>

\* int x=10;
DeclareXInit ==
    <<"i","n","t"," ","x","=","1","0",";">>

\* int y;
DeclareY ==
    <<"i","n","t"," ","y",";">>

\* y=x+5;
AssignYSum ==
    <<"y","=","x","+","5",";">>

\* return 0;
ReturnZero ==
    <<"r","e","t","u","r","n"," ","0",";">>

\* printf(40+2);
PrintSum ==
    <<"p","r","i","n","t","f","(","4","0","+","2",")",";">>

\* printf("");
PrintEmpty ==
    <<"p","r","i","n","t","f","(","\"","\"",")",";">>

\* printf();
PrintNothing ==
    <<"p","r","i","n","t","f","(",")",";">>

\* return printf+1;
ReturnPrintfSum ==
    <<"r","e","t","u","r","n"," ","p","r","i","n","t","f","+","1",";">>

\* x=7-y+z-1;
AssignXChain ==
    <<"x","=","7","-","y","+","z","-","1",";">>

\* printf(x,y);
PrintTwo ==
    <<"p","r","i","n","t","f","(","x",",","y",")",";">>

\* x="a";
AssignXString ==
    <<"x","=","\"","a","\"",";">>

\* foo(1);
CallFoo ==
    <<"f","o","o","(","1",")",";">>

\* return;
ReturnBare ==
    <<"r","e","t","u","r","n",";">>

\* printf(x-1);
PrintDifference ==
    <<"p","r","i","n","t","f","(","x","-","1",")",";">>

\* x=1+printf;
AssignXPrintf ==
    <<"x","=","1","+","p","r","i","n","t","f",";">>

\* printf=3;
AssignPrintf ==
    <<"p","r","i","n","t","f","=","3",";">>

StatementTexts ==
    {DeclareXInit, DeclareY, AssignYSum, ReturnZero,
     PrintSum, PrintEmpty, PrintNothing, ReturnPrintfSum,
     AssignXChain, PrintTwo, AssignXString, CallFoo,
     ReturnBare, PrintDifference, AssignXPrintf, AssignPrintf}

\* int main() { int x = 10; int y; y = x + 5; return 0; }
ExampleBindings ==
    <<"i","n","t"," ","m","a","i","n","(",")"," ","{"," ","i","n","t"," ",
      "x"," ","="," ","1","0",";"," ","i","n","t"," ","y",";"," ","y"," ",
      "="," ","x"," ","+"," ","5",";"," ","r","e","t","u","r","n"," ","0",
      ";"," ","}">>

\* int main() { printf(40 + 2); return 0; }
ExamplePrint ==
    <<"i","n","t"," ","m","a","i","n","(",")"," ","{"," ","p","r","i","n",
      "t","f","(","4","0"," ","+"," ","2",")",";"," ","r","e","t","u","r",
      "n"," ","0",";"," ","}">>

\* int main() { return 0; }
ExampleReturn ==
    <<"i","n","t"," ","m","a","i","n","(",")"," ","{"," ","r","e","t","u",
      "r","n"," ","0",";"," ","}">>

\* int main() { return; 0 }
ExampleMisplaced ==
    <<"i","n","t"," ","m","a","i","n","(",")"," ","{"," ","r","e","t","u",
      "r","n",";"," ","0"," ","}">>

\* int main( { return 0; }
ExampleBadHeader ==
    <<"i","n","t"," ","m","a","i","n","("," ","{"," ","r","e","t","u","r",
      "n"," ","0",";"," ","}">>

\* int main() { @ return 0; }
ExampleUnknown ==
    <<"i","n","t"," ","m","a","i","n","(",")"," ","{"," ","@"," ","r","e",
      "t","u","r","n"," ","0",";"," ","}">>

\* int main() { x = 1a; }
ExampleDigitLetter ==
    <<"i","n","t"," ","m","a","i","n","(",")"," ","{"," ","x"," ","="," ",
      "1","a",";"," ","}">>

\* int main() { printf("a); }
ExampleOpenString ==
    <<"i","n","t"," ","m","a","i","n","(",")"," ","{"," ","p","r","i","n",
      "t","f","(","\"","a",")",";"," ","}">>

ExampleTexts ==
    {ExampleBindings, ExamplePrint, ExampleReturn, ExampleMisplaced,
     ExampleBadHeader, ExampleUnknown, ExampleDigitLetter, ExampleOpenString}

\* The most statements a generated program body holds.
MaxStatements == 2

\* The concatenations of at most n members of a set of sequences.
RECURSIVE Concatenations(_, _)
Concatenations(pieces, n) ==
    IF n = 0 THEN {<<>>}
    ELSE LET shorter == Concatenations(pieces, n - 1)
         IN  shorter \cup {b \o piece : b \in shorter, piece \in pieces}

Sources ==
    ExampleTexts \cup
    {HeaderText \o body \o <<"}">> :
        body \in Concatenations(StatementTexts, MaxStatements)}

\* run_compiler has read the text and is about to call lexical_analyzer.
Init ==
    /\ code \in Sources
    /\ pos = 1
    /\ tokens = <<>>
    /\ has_error = FALSE
    /\ parser_tokens = <<>>
    /\ current_token_index = 0
    /\ stack = <<>>
    /\ ok = "None"
    /\ i = 0
    /\ symbols = <<>>
    /\ output = <<>>
    /\ result = <<>>
    /\ fault = "none"
    /\ pc = "lex"
    /\ report = NoReport

Next == NextLex \/ NextRun \/ NextParse \/ NextEval

Spec == Init /\ [][Next]_vars

---------------------------------------------------------------------------
(* lexical_analyzer alone, on texts put together from short pieces         *)

\* + - = ( ) { } ; ,
PunctuationText == <<"+","-","=","(",")","{","}",";",",">>

TextPieces ==
    {<<"i","n","t">>, <<"r","e","t","u","r","n">>, <<"a">>, <<"_">>, <<"1">>,
     <<Quote>>, <<" ">>, <<"\n">>, PunctuationText}

\* The most pieces a text is put together from.
MaxPieces == 3

InitLex ==
    /\ code \in Concatenations(TextPieces, MaxPieces)
    /\ pos = 1
    /\ tokens = <<>>
    /\ has_error = FALSE
    /\ parser_tokens = <<>>
    /\ current_token_index = 0
    /\ stack = <<>>
    /\ ok = "None"
    /\ i = 0
    /\ symbols = <<>>
    /\ output = <<>>
    /\ result = <<>>
    /\ fault = "none"
    /\ pc = "lex"
    /\ report = NoReport

SpecLex == InitLex /\ [][NextLex]_vars

---------------------------------------------------------------------------
(* syntax_analyzer alone, on arbitrary token lists                         *)

\* A lexeme of each token type.
Lexeme(type) ==
    CASE type = "INT_KEYWORD"    -> <<"i","n","t">>
      [] type = "RETURN_KEYWORD" -> <<"r","e","t","u","r","n">>
      [] type = "IDENTIFIER"     -> <<"x">>
      [] type = "STRING_LITERAL" -> <<Quote, "a", Quote>>
      [] type = "NUMBER"         -> <<"1">>
      [] type = "PLUS"           -> <<"+">>
      [] type = "MINUS"          -> <<"-">>
      [] type = "EQUALS"         -> <<"=">>
      [] type = "LPAREN"         -> <<"(">>
      [] type = "RPAREN"         -> <<")">>
      [] type = "LBRACE"         -> <<"{">>
      [] type = "RBRACE"         -> <<"}">>
      [] type = "SEMICOLON"      -> <<";">>
      [] type = "COMMA"          -> <<",">>

TokensOf(types) ==
    [k \in 1..Len(types) |-> [type |-> types[k], value |-> Lexeme(types[k])]]

TypesOf(ts) == [k \in 1..Len(ts) |-> ts[k].type]

\* The types a token list can hold: all but WHITESPACE and UNKNOWN.
ParserTypes == {TOKEN_TYPES[k] : k \in 1..14}

HeaderTypes == <<"INT_KEYWORD", "IDENTIFIER", "LPAREN", "RPAREN", "LBRACE">>

\* Single tokens, whole statements of each shape, and statements cut short.
TypePieces ==
    {<<type>> : type \in ParserTypes} \cup
    {<<"INT_KEYWORD", "IDENTIFIER", "SEMICOLON">>,
     <<"INT_KEYWORD", "IDENTIFIER", "EQUALS", "NUMBER", "SEMICOLON">>,
     <<"RETURN_KEYWORD", "SEMICOLON">>,
     <<"RETURN_KEYWORD", "IDENTIFIER", "PLUS", "NUMBER", "SEMICOLON">>,
     <<"IDENTIFIER", "LPAREN", "RPAREN", "SEMICOLON">>,
     <<"IDENTIFIER", "LPAREN", "STRING_LITERAL", "COMMA", "IDENTIFIER", "MINUS",
       "NUMBER", "RPAREN", "SEMICOLON">>,
     <<"IDENTIFIER", "EQUALS", "NUMBER", "MINUS", "IDENTIFIER", "SEMICOLON">>,
     <<"IDENTIFIER", "EQUALS", "NUMBER", "PLUS">>,
     <<"IDENTIFIER", "LPAREN", "NUMBER", "COMMA">>}

\* The most pieces between the start of a token list and its end.
MaxTypePieces == 2

TypeLists ==
    {prefix \o body \o suffix :
        prefix \in {<<>>, HeaderTypes, <<"INT_KEYWORD", "IDENTIFIER", "LPAREN", "LBRACE">>},
        body \in Concatenations(TypePieces, MaxTypePieces),
        suffix \in {<<>>, <<"RBRACE">>}}

InitParse ==
    /\ code = <<>>
    /\ pos = 1
    /\ tokens \in {TokensOf(types) : types \in TypeLists}
    /\ has_error = FALSE
    /\ parser_tokens = tokens
    /\ current_token_index = 0
    /\ stack = ProgramBody
    /\ ok = "None"
    /\ i = 0
    /\ symbols = <<>>
    /\ output = <<>>
    /\ result = <<>>
    /\ fault = "none"
    /\ pc = "parse"
    /\ report = NoReport

SpecParse == InitParse /\ [][NextParse]_vars

\* The interpreter runs a started call on: a step that can be taken is taken.
SpecParseFair == SpecParse /\ WF_vars(NextParse)

---------------------------------------------------------------------------
(* The grammar, as sets of token-type sequences                            *)

IsTerm(type) == type \in {"NUMBER", "IDENTIFIER", "STRING_LITERAL"}

\* expression := term (('+' | '-') term)*
IsExpression(types) ==
    /\ Len(types) % 2 = 1
    /\ \A k \in 1..Len(types) :
          IF k % 2 = 1 THEN IsTerm(types[k]) ELSE types[k] \in {"PLUS", "MINUS"}

\* expression (',' expression)*
RECURSIVE IsExpressionList(_)
IsExpressionList(types) ==
    \/ IsExpression(types)
    \/ \E k \in 2..(Len(types) - 1) :
          /\ types[k] = "COMMA"
          /\ IsExpression(SubSeq(types, 1, k - 1))
          /\ IsExpressionList(SubSeq(types, k + 1, Len(types)))

\* arguments := (expression (',' expression)*)?
IsArguments(types) == types = <<>> \/ IsExpressionList(types)

Inner(types, first, fromEnd) == SubSeq(types, first, Len(types) - fromEnd)

IsDeclaration(types) ==
    /\ Len(types) >= 3
    /\ types[1] = "INT_KEYWORD" /\ types[2] = "IDENTIFIER"
    /\ types[Len(types)] = "SEMICOLON"
    /\ \/ Len(types) = 3
       \/ Len(types) > 3 /\ types[3] = "EQUALS" /\ IsExpression(Inner(types, 4, 1))

IsReturn(types) ==
    /\ Len(types) >= 2
    /\ types[1] = "RETURN_KEYWORD"
    /\ types[Len(types)] = "SEMICOLON"
    /\ (Len(types) = 2 \/ IsExpression(Inner(types, 2, 1)))

IsCall(types) ==
    /\ Len(types) >= 4
    /\ types[1] = "IDENTIFIER" /\ types[2] = "LPAREN"
    /\ types[Len(types) - 1] = "RPAREN" /\ types[Len(types)] = "SEMICOLON"
    /\ IsArguments(Inner(types, 3, 2))

IsAssignment(types) ==
    /\ Len(types) >= 4
    /\ types[1] = "IDENTIFIER" /\ types[2] = "EQUALS"
    /\ types[Len(types)] = "SEMICOLON"
    /\ IsExpression(Inner(types, 3, 1))

IsStatement(types) ==
    IsDeclaration(types) \/ IsReturn(types) \/ IsCall(types) \/ IsAssignment(types)

\* statement*
RECURSIVE IsStatements(_)
IsStatements(types) ==
    \/ types = <<>>
    \/ \E k \in 1..Len(types) :
          /\ types[k] = "SEMICOLON"
          /\ IsStatement(SubSeq(types, 1, k))
          /\ IsStatements(SubSeq(types, k + 1, Len(types)))

\* program := 'int' IDENT '(' ')' '{' statement* '}', and nothing after it
IsProgram(types) ==
    /\ Len(types) >= 6
    /\ SubSeq(types, 1, 5) = HeaderTypes
    /\ types[Len(types)] = "RBRACE"
    /\ IsStatements(Inner(types, 6, 1))

\* A continuation for every place of the grammar a sequence can stop at: a
\* sequence begins some program exactly when one of these completes it.
Completions ==
    {SubSeq(HeaderTypes \o <<"RBRACE">>, k, 6) : k \in 1..7} \cup
    {<<"SEMICOLON", "RBRACE">>,
     <<"IDENTIFIER", "SEMICOLON", "RBRACE">>,
     <<"LPAREN", "RPAREN", "SEMICOLON", "RBRACE">>,
     <<"RPAREN", "SEMICOLON", "RBRACE">>,
     <<"IDENTIFIER", "RPAREN", "SEMICOLON", "RBRACE">>}

BeginsProgram(types) == \E rest \in Completions : IsProgram(types \o rest)

---------------------------------------------------------------------------
(* Claims about syntax_analyzer                                            *)

\* C4: syntax_analyzer returns True exactly when the whole token sequence is
\* derivable from the grammar, with no token left after the closing brace.
C4_TrueIffDerivable ==
    pc = "parsed" =>
        /\ ok \in {"True", "False"}
        /\ (ok = "True") <=> IsProgram(TypesOf(parser_tokens))

\* An accepted list with a call that has several arguments.
C4_AcceptedCallWitness ==
    /\ pc = "parsed"
    /\ ok = "True"
    /\ \E k \in 1..Len(parser_tokens) : parser_tokens[k].type = "COMMA"

Consumed == TypesOf(SubSeq(parser_tokens, 1, current_token_index))

\* The state part of C5: no exception has left syntax_analyzer, the cursor is
\* within the list, a step is possible until the return, the return value is
\* a boolean, and False is returned with the cursor at the first token that
\* no program continues with (or at the end of a list that stops short).
C5_NoFault ==
    /\ fault = "none"
    /\ pc \in {"parse", "parsed"}
    /\ current_token_index <= Len(parser_tokens)
    /\ pc = "parse" => ENABLED NextParse
    /\ pc = "parsed" => ok \in {"True", "False"}
    /\ (pc = "parsed" /\ ok = "False") =>
          /\ BeginsProgram(Consumed)
          /\ IF current_token_index < Len(parser_tokens)
             THEN ~BeginsProgram(Append(Consumed,
                        parser_tokens[current_token_index + 1].type))
             ELSE ~IsProgram(Consumed)

\* C5, in full: the above in every state, and every call of syntax_analyzer
\* comes to its return.
C5_AlwaysReturnsBoolean == []C5_NoFault /\ <>(pc = "parsed")

\* A list that stops in the middle of an expression was refused at its end.
C5_TruncatedWitness ==
    /\ pc = "parsed"
    /\ ok = "False"
    /\ Len(parser_tokens) > 6
    /\ current_token_index = Len(parser_tokens)
    /\ parser_tokens[Len(parser_tokens)].type \in {"PLUS", "MINUS", "COMMA"}

---------------------------------------------------------------------------
(* Claims about lexical_analyzer                                           *)

QuotesBefore(s, p) == Cardinality({k \in 1..(p - 1) : s[k] = Quote})

\* A word outside the string literals that starts with a digit and holds a
\* letter or an underscore.
DigitStartedWord(s) ==
    \E p \in 1..Len(s) : \E q \in p..Len(s) :
        /\ s[p] \in Digits
        /\ ~IsWordAt(s, p - 1)
        /\ QuotesBefore(s, p) % 2 = 0
        /\ \A k \in p..q : s[k] \in WordChars
        /\ s[q] \in Letters \cup {"_"}

UnpairedQuote(s) == QuotesBefore(s, Len(s) + 1) % 2 = 1

NoDiscardedToken ==
    \A k \in 1..Len(tokens) : tokens[k].type \notin {"WHITESPACE", "UNKNOWN"}

\* C2 as stated: on a text of pattern characters only, has_error is False and
\* no WHITESPACE token is returned.
C2_NoErrorOnPatternCharacters ==
    pc = "lexed" => ~has_error /\ NoDiscardedToken

\* C2 as amended: on a text of pattern characters only, no WHITESPACE (and no
\* UNKNOWN) token is returned, and has_error is False exactly when the double
\* quotes pair up and no word outside a string literal starts with a digit
\* and holds a letter or an underscore.
C2_ErrorIffQuoteOrDigitWord ==
    pc = "lexed" =>
        /\ NoDiscardedToken
        /\ has_error <=> (UnpairedQuote(code) \/ DigitStartedWord(code))

\* A text without quotes whose digit-started word set has_error, next to
\* text that was tokenized.
C2_DigitWordWitness ==
    /\ pc = "lexed"
    /\ has_error
    /\ QuotesBefore(code, Len(code) + 1) = 0
    /\ tokens # <<>>

---------------------------------------------------------------------------
(* What the grammar's expressions mean, read off the token list            *)

Defined(v) == [defined |-> TRUE, value |-> v]

Undefined == [defined |-> FALSE, value |-> IntValue(0)]

RECURSIVE Decimal(_, _)
Decimal(digits, acc) ==
    IF digits = <<>> THEN acc
    ELSE Decimal(Tail(digits), 10 * acc + DigitValue(Head(digits)))

TermValue(tok, syms) ==
    CASE tok.type = "NUMBER" -> IntValue(Decimal(tok.value, 0))
      [] tok.type = "STRING_LITERAL" ->
            StrValue(SubSeq(tok.value, 2, Len(tok.value) - 1))
      [] tok.type = "IDENTIFIER" ->
            IF tok.value \in DOMAIN syms THEN syms[tok.value] ELSE IntValue(0)

Combine(op, left, right) ==
    CASE left.t = "int" /\ right.t = "int" /\ op = "PLUS" ->
            Defined(IntValue(left.n + right.n))
      [] left.t = "int" /\ right.t = "int" /\ op = "MINUS" ->
            Defined(IntValue(left.n - right.n))
      [] left.t = "str" /\ right.t = "str" /\ op = "PLUS" ->
            Defined(StrValue(left.s \o right.s))
      [] OTHER -> Undefined

\* The expression that starts at 1-based position k: up to the first token
\* that is neither a term nor an operator.
RECURSIVE ExpressionEnd(_, _)
ExpressionEnd(ts, k) ==
    IF k <= Len(ts) /\ (IsTerm(ts[k].type) \/ ts[k].type \in {"PLUS", "MINUS"})
    THEN ExpressionEnd(ts, k + 1)
    ELSE k - 1

\* term op term op ... folded strictly from the left.
RECURSIVE FoldLeft(_, _, _, _)
FoldLeft(ts, k, last, syms) ==
    IF k = last THEN Defined(TermValue(ts[k], syms))
    ELSE LET left == FoldLeft(ts, k, last - 2, syms)
         IN  IF left.defined
             THEN Combine(ts[last - 1].type, left.value, TermValue(ts[last], syms))
             ELSE Undefined

ExpressionValue(ts, k, syms) == FoldLeft(ts, k, ExpressionEnd(ts, k), syms)

\* The token the cursor i is at (1-based i + 1), and the ones after it.
At(offset) == ListGet(tokens, i + offset)

Stepping == pc = "eval" /\ i < Len(tokens)

---------------------------------------------------------------------------
(* Claims about evaluate and run_compiler                                  *)

AtInitializedDeclaration ==
    /\ Stepping
    /\ At(0).type = "INT_KEYWORD"
    /\ At(2).type = "EQUALS"

\* C1: a declaration with an initializer binds the identifier to the value
\* of the expression; the example program ends with x = 10 and y = 15.
C1_InitializerBinds ==
    /\ [][AtInitializedDeclaration =>
            LET value == ExpressionValue(tokens, i + 4, symbols) IN
            value.defined =>
                /\ At(1).value \in DOMAIN symbols'
                /\ symbols'[At(1).value] = value.value]_vars
    /\ []((code = ExampleBindings /\ pc = "evaluated") =>
            /\ symbols[<<"x">>] = IntValue(10)
            /\ symbols[<<"y">>] = IntValue(15))

\* C3: the run is reported as "(No output)" exactly when the output buffer is
\* empty.
C3_NoOutputIffEmptyBuffer ==
    (pc = "done" /\ report.status = "compiled") =>
        (report.no_output <=> output = <<>>)

ScanFinished == NextMatch(code, pos).type = "none"

ParserStarted == pc \in {"parse", "parsed"} \/ ok # "None"

EvaluateStarted ==
    \/ pc \in {"eval", "evaluated"}
    \/ DOMAIN symbols # {} \/ output # <<>> \/ i > 0
    \/ report.status \in {"syntax_successful", "compiled"}

\* C6: lexical_analyzer, then syntax_analyzer, then evaluate; the parser is
\* not started after a lexical error, and evaluate is started only after the
\* parser returned True for the same token list.
C6_StageOrder ==
    /\ ParserStarted => ScanFinished /\ ~has_error /\ parser_tokens = tokens
    /\ EvaluateStarted => ParserStarted /\ ok = "True" /\ stack = <<>>

\* evaluate has returned the text of a program that printed.
C6_EvaluatedWitness ==
    /\ pc = "evaluated"
    /\ ok = "True"
    /\ output # <<>>

AtPrintfCall ==
    /\ Stepping
    /\ At(0).type = "IDENTIFIER" /\ At(0).value = PRINTF
    /\ At(1).type = "LPAREN"
    /\ IsTerm(At(2).type)

\* C7: one line per call statement printf(expr, ...), the text of the value
\* of its first argument; no other statement adds a line; the lines are
\* joined by newlines.
C7_OneLinePerPrintfCall ==
    /\ [][Stepping =>
            IF AtPrintfCall
            THEN LET value == ExpressionValue(tokens, i + 3, symbols) IN
                 value.defined => output' = Append(output, str(value.value))
            ELSE output' = output]_vars
    /\ [](pc = "evaluated" => result = join(output))

\* The 1-based positions at which the statements of the body start.
StatementStarts ==
    {k \in 6..Len(tokens) : tokens[k - 1].type \in {"LBRACE", "SEMICOLON"}}

AtAssignment ==
    /\ Stepping
    /\ At(0).type = "IDENTIFIER"
    /\ At(1).type = "EQUALS"

\* The targets of the assignments among the body's statements that start
\* before the cursor.
AssignmentsPassed ==
    {tokens[k].value : k \in {n \in StatementStarts :
        n <= i /\ n < Len(tokens) /\ tokens[n].type = "IDENTIFIER"
               /\ tokens[n + 1].type = "EQUALS"}}

\* C8: an assignment rebinds its identifier (creating it if absent) to the
\* left-to-right fold of the whole expression, an unbound identifier reading
\* as zero without becoming a key; every other binding is left unchanged. (An
\* expression whose fold has no value, a str combined with an int or under
\* '-', raises TypeError and binds nothing.)
C8_AssignmentFolds ==
    /\ [](pc \in {"eval", "evaluated"} => AssignmentsPassed \subseteq DOMAIN symbols)
    /\ [][AtAssignment =>
         LET value == ExpressionValue(tokens, i + 3, symbols)
             name == At(0).value
         IN  IF value.defined
             THEN /\ fault' = "none"
                  /\ DOMAIN symbols' = (DOMAIN symbols) \cup {name}
                  /\ symbols'[name] = value.value
                  /\ \A k \in (DOMAIN symbols) \ {name} : symbols'[k] = symbols[k]
             ELSE /\ fault' = "TypeError"
                  /\ symbols' = symbols]_vars

\* After y=x+5; x=7-y+z-1; with x and z unbound: y = 5, x = 1, z is no key.
C8_ChainWitness ==
    /\ pc = "evaluated"
    /\ code = HeaderText \o AssignYSum \o AssignXChain \o <<"}">>
    /\ <<"z">> \notin DOMAIN symbols
    /\ symbols[<<"y">>] = IntValue(5)
    /\ symbols[<<"x">>] = IntValue(1)

\* The identifiers of the declarations and the targets of the assignments
\* among the body's statements that start before the cursor.
DeclaredOrAssigned ==
    {tokens[k + 1].value : k \in {n \in StatementStarts :
        n <= i /\ n < Len(tokens) /\ tokens[n].type = "INT_KEYWORD"}}
    \cup AssignmentsPassed

\* C9: every key of the symbol table is the identifier of a declaration or
\* the target of an assignment already processed.
C9_KeysDeclaredOrAssigned ==
    pc \in {"eval", "evaluated"} => DOMAIN symbols \subseteq DeclaredOrAssigned

IntegerOperands ==
    \A k \in 1..Len(tokens) : tokens[k].type # "STRING_LITERAL"

\* C10: on an accepted program whose operands are all integers, evaluate
\* runs to completion without raising and without reading outside the list.
C10_EvaluateNeverRaises ==
    (ok = "True" /\ IntegerOperands) => (fault = "none" /\ pc # "crashed")

=============================================================================
